---- MODULE Spec2Model ----
(***************************************************************************)
(* A model of word_analysis.py: the tokenizer (the word pattern applied    *)
(* with findall to every line of the file), the frequency tally, the       *)
(* top-three selection, the single-word occurrence counter and the         *)
(* command-line dispatch around them.                                      *)
(*                                                                         *)
(* Text is a sequence of characters, each character a string.  The text    *)
(* of the file is the text Python hands to the program, that is, after     *)
(* decoding and universal-newline translation (so "\r" never occurs).      *)
(* The character U+212A (KELVIN SIGN) is written "U+212A".                  *)
(***************************************************************************)
EXTENDS Integers, Sequences, FiniteSets, TLC

VARIABLES
    entry,            \* how the module is used: "main", or a direct call of
                      \* "three_most_common_words" or "word_occurrences"
    argv,             \* sys.argv[1:] (entry = "main"); <<>> otherwise
    word,             \* the parameter word of word_occurrences
    fs_exists,        \* whether the path names a readable file
    fs_content,       \* the text of that file
    pc,               \* the position in the program
    opens,            \* the number of open(path) calls made so far
    file,             \* the file object: "none", "open" or "closed"
    rest,             \* the text the file iterator has not yet yielded
    word_pattern,     \* word_occurrences: the target spliced into the pattern
    word_occurrences, \* three_most_common_words: the dict, in insertion order
    word_occurences,  \* word_occurrences: the running total (sic)
    three_words,      \* the list three_most_common_words returns
    stdout,           \* the lines printed
    exit_status       \* -1 while running or returned to a caller; else sys.exit's

vars == <<entry, argv, word, fs_exists, fs_content, pc, opens, file, rest,
          word_pattern, word_occurrences, word_occurences, three_words,
          stdout, exit_status>>

----------------------------------------------------------------------------
(* Bounds of the model. *)

\* the longest file drawn character by character
MaxLen == 4
\* the most pieces (a word and the white space after it) of a file drawn
\* piece by piece
MaxWords == 5

----------------------------------------------------------------------------
(* Characters. *)

KELVIN == "U+212A"

LowerCase == <<"a","b","c","d","e","f","g","h","i","j","k","l","m",
               "n","o","p","q","r","s","t","u","v","w","x","y","z">>
UpperCase == <<"A","B","C","D","E","F","G","H","I","J","K","L","M",
               "N","O","P","Q","R","S","T","U","V","W","X","Y","Z">>

Range(s) == {s[i] : i \in 1..Len(s)}

LowerSet == Range(LowerCase)
UpperSet == Range(UpperCase)

\* [a-zA-Z]
IsAlpha(c) == c \in LowerSet \/ c \in UpperSet

\* \s of a str pattern, on the characters of the model
IsSpace(c) == c \in {" ", "\t", "\n", "\f"}

\* str.lower() of one character that [a-zA-Z-] matched
LowerChar(c) ==
    IF c \in UpperSet
    THEN LowerCase[CHOOSE i \in 1..Len(UpperCase) : UpperCase[i] = c]
    ELSE c

\* word.lower()
lower(w) == [i \in 1..Len(w) |-> LowerChar(w[i])]

\* a faulty variant of SreLower: the pattern compiled without re.IGNORECASE
SreLowerExact(c) == c

\* re.IGNORECASE on a str pattern: two characters match when their simple
\* lower-case forms agree; the lower-case form of U+212A is "k"
SreLower(c) == IF c = KELVIN THEN "k" ELSE LowerChar(c)

----------------------------------------------------------------------------
\* The word pattern  (?:(?<=\s)|(?<=^))([a-zA-Z]+[-]?[a-zA-Z]*)(?=\s)

\* a faulty variant of LookBehind: a word boundary instead of white space
LookBehindBoundary(s, i) == i = 1 \/ ~IsAlpha(s[i-1])

\* (?:(?<=\s)|(?<=^)) at index i of the string s
LookBehind(s, i) == i = 1 \/ IsSpace(s[i-1])

\* a faulty variant of LookAhead: the end of the string accepted as well
LookAheadOrEnd(s, j) == j > Len(s) \/ IsSpace(s[j])

\* (?=\s) with j the index of the next character
LookAhead(s, j) == j <= Len(s) /\ IsSpace(s[j])

RECURSIVE LetterRun(_, _)
\* the letters of s from index i on: how many [a-zA-Z] can match at most
LetterRun(s, i) ==
    IF i <= Len(s) /\ IsAlpha(s[i]) THEN 1 + LetterRun(s, i + 1) ELSE 0

\* The ways [a-zA-Z]+[-]?[a-zA-Z]* matches at index i: <<n1, h, n3>> are the
\* letters taken by the first class, the hyphens and the letters of the last.
BodyMatches(s, i) ==
    UNION {UNION {{<<n1, h, n3>> : n3 \in 0..LetterRun(s, i + n1 + h)} :
                  h \in IF i + n1 <= Len(s) /\ s[i + n1] = "-" THEN {0, 1} ELSE {0}} :
           n1 \in 1..LetterRun(s, i)}

\* the backtracking order of the greedy quantifiers: c is tried before d
TriedBefore(c, d) ==
    \/ c[1] > d[1]
    \/ c[1] = d[1] /\ c[2] > d[2]
    \/ c[1] = d[1] /\ c[2] = d[2] /\ c[3] >= d[3]

\* The match of the word pattern at index i: the index after the match, or 0
\* when the pattern does not match there.
WordMatchEnd(s, i) ==
    LET ok == {c \in BodyMatches(s, i) : LookAhead(s, i + c[1] + c[2] + c[3])}
    IN  IF ~LookBehind(s, i) \/ ok = {} THEN 0
        ELSE LET c == CHOOSE c \in ok : \A d \in ok : TriedBefore(c, d)
             IN  i + c[1] + c[2] + c[3]

RECURSIVE WordFindAllFrom(_, _)
WordFindAllFrom(s, pos) ==
    IF pos > Len(s) THEN <<>>
    ELSE LET e == WordMatchEnd(s, pos)
         IN  IF e = 0 THEN WordFindAllFrom(s, pos + 1)
             ELSE <<SubSeq(s, pos, e - 1)>> \o WordFindAllFrom(s, e)

\* word_pattern.findall(line)
WordFindAll(line) == WordFindAllFrom(line, 1)

----------------------------------------------------------------------------
(* The file iterator. *)

\* the length of the next line of the text t: up to and with the first "\n"
LineLen(t) ==
    IF \E i \in 1..Len(t) : t[i] = "\n"
    THEN CHOOSE i \in 1..Len(t) : t[i] = "\n" /\ \A j \in 1..(i-1) : t[j] # "\n"
    ELSE Len(t)

\* for line in file: the next line, its line end kept
NextLine(t) == SubSeq(t, 1, LineLen(t))

AfterLine(t) == SubSeq(t, LineLen(t) + 1, Len(t))

----------------------------------------------------------------------------
(* The tally. *)

HasKey(d, w) == \E i \in 1..Len(d) : d[i].word = w

\* a faulty variant of Increment: a word seen before is set to 1 again
IncrementReset(d, w) ==
    IF HasKey(d, w)
    THEN [i \in 1..Len(d) |-> IF d[i].word = w THEN [d[i] EXCEPT !.count = 1] ELSE d[i]]
    ELSE Append(d, [word |-> w, count |-> 1])

\* if word in word_occurrences: ... += 1  else: ... = 1
Increment(d, w) ==
    IF HasKey(d, w)
    THEN [i \in 1..Len(d) |-> IF d[i].word = w THEN [d[i] EXCEPT !.count = @ + 1] ELSE d[i]]
    ELSE Append(d, [word |-> w, count |-> 1])

RECURSIVE Tally(_, _)
\* for word in words: the dict after the words of one line
Tally(d, words) ==
    IF words = <<>> THEN d
    ELSE Tally(Increment(d, Head(words)), Tail(words))

\* a faulty variant of LineWords: the words kept in the case they were written in
LineWordsCased(line) == WordFindAll(line)

\* [word.lower() for word in word_pattern.findall(line)]
LineWords(line) ==
    LET found == WordFindAll(line)
    IN  [i \in 1..Len(found) |-> lower(found[i])]


\* sorted(...)[:3] keeps this many items
Top == 3

\* a faulty variant of InsertByCount: the sort without reverse=True
InsertAscending(sorted, item) ==
    LET k == Cardinality({i \in 1..Len(sorted) : sorted[i].count <= item.count})
    IN  SubSeq(sorted, 1, k) \o <<item>> \o SubSeq(sorted, k + 1, Len(sorted))

\* One step of the stable sort by count, largest first: a later item goes
\* behind every item whose count is at least its own.
InsertByCount(sorted, item) ==
    LET k == Cardinality({i \in 1..Len(sorted) : sorted[i].count >= item.count})
    IN  SubSeq(sorted, 1, k) \o <<item>> \o SubSeq(sorted, k + 1, Len(sorted))

RECURSIVE Sorted(_)
\* sorted(word_occurrences.items(), key=operator.itemgetter(1), reverse=True)
Sorted(d) ==
    IF d = <<>> THEN <<>>
    ELSE InsertByCount(Sorted(SubSeq(d, 1, Len(d) - 1)), d[Len(d)])

\* a faulty variant of ThreeTuples: the slice [:2]
ThreeTuplesShort(d) ==
    LET s == Sorted(d) IN SubSeq(s, 1, IF Len(s) < 2 THEN Len(s) ELSE 2)

\* three_tuples: the first three of the sorted items
ThreeTuples(d) ==
    LET s == Sorted(d) IN SubSeq(s, 1, IF Len(s) < Top THEN Len(s) ELSE Top)

\* three_words = [i[0] for i in three_tuples]
ThreeWords(d) ==
    LET t == ThreeTuples(d) IN [i \in 1..Len(t) |-> t[i].word]

----------------------------------------------------------------------------
\* word_occurrences: the pattern  (?:(?<=\s)|(?<=^))( + stripped_word + )(?=\s)

\* word.strip()
Strip(w) ==
    LET keep == {i \in 1..Len(w) : ~IsSpace(w[i])}
    IN  IF keep = {} THEN <<>>
        ELSE SubSeq(w, CHOOSE i \in keep : \A j \in keep : i <= j,
                       CHOOSE i \in keep : \A j \in keep : j <= i)

\* One character of the target as the pattern compiler reads it, against the
\* character c of the line.  The target is spliced in unescaped, so "." is
\* the wildcard (any character but a line end, no re.DOTALL); a letter, a
\* hyphen, an apostrophe and white space stand for themselves, compared under
\* re.IGNORECASE.  Targets are drawn from these characters only.
AtomMatches(p, c) ==
    IF p = "." THEN c # "\n" ELSE SreLower(p) = SreLower(c)

\* The match of the target pattern at index i: the index after it, or 0.
TargetMatchEnd(pat, s, i) ==
    IF /\ LookBehind(s, i)
       /\ i + Len(pat) - 1 <= Len(s)
       /\ \A k \in 1..Len(pat) : AtomMatches(pat[k], s[i + k - 1])
       /\ LookAhead(s, i + Len(pat))
    THEN i + Len(pat)
    ELSE 0

RECURSIVE TargetFindAllFrom(_, _, _)
TargetFindAllFrom(pat, s, pos) ==
    IF pos > Len(s) THEN <<>>
    ELSE LET e == TargetMatchEnd(pat, s, pos)
         IN  IF e = 0 THEN TargetFindAllFrom(pat, s, pos + 1)
             ELSE <<SubSeq(s, pos, e - 1)>>
                  \o TargetFindAllFrom(pat, s, IF e = pos THEN pos + 1 ELSE e)

\* word_pattern.findall(line)
TargetFindAll(pat, line) == TargetFindAllFrom(pat, line, 1)

\* re.match("^[a-zA-Z]+[-]?[a-zA-Z]*$", word): "$" also matches just before
\* a line end that ends the string
word_is_valid(w) ==
    \E c \in BodyMatches(w, 1) :
        LET e == 1 + c[1] + c[2] + c[3]
        IN  e = Len(w) + 1 \/ (e = Len(w) /\ w[e] = "\n")

\* ", ".join(words)
RECURSIVE Join(_)
Join(ws) ==
    IF ws = <<>> THEN <<>>
    ELSE IF Len(ws) = 1 THEN ws[1]
    ELSE ws[1] \o <<",", " ">> \o Join(Tail(ws))

----------------------------------------------------------------------------
(* The inputs. *)

\* the characters of the files drawn character by character
Sigma == {"a", "A", "b", "-", ".", " ", "\n"}

CharFiles == UNION {[1..n -> Sigma] : n \in 0..MaxLen}

\* the pieces of the files drawn piece by piece
Pieces == {<<"a", " ">>, <<"b", " ">>, <<"c", "\n">>, <<"d", " ">>}

RECURSIVE Flatten(_)
Flatten(ps) == IF ps = <<>> THEN <<>> ELSE Head(ps) \o Flatten(Tail(ps))

PieceFiles == {Flatten(ps) : ps \in UNION {[1..n -> Pieces] : n \in 0..MaxWords}}

\* "The cat sat. A Cat ran."
CatFile == <<"T","h","e"," ","c","a","t"," ","s","a","t","."," ","A"," ","C","a","t"," ","r","a","n",".">>
\* "the quick fox the lazy fox the"
FoxFile == <<"t","h","e"," ","q","u","i","c","k"," ","f","o","x"," ","t","h","e"," ","l","a","z","y"," ","f","o","x"," ","t","h","e">>
\* "At at AT", and the same with a line end
AtFile == <<"A","t"," ","a","t"," ","A","T">>
AtFileNl == AtFile \o <<"\n">>
\* "...end" and "...end\n"
EndFile == <<"a","n"," ","e","n","d">>
EndFileNl == EndFile \o <<"\n">>
\* " well-known forebodings. well- -well a-b-c a--b\tx\fy "
HyphenFile == <<" ","w","e","l","l","-","k","n","o","w","n"," ","f","o","r","e","b","o","d","i","n","g","s","."," ","w","e","l","l","-"," ","-","w","e","l","l"," ","a","-","b","-","c"," ","a","-","-","b","\t","x","\f","y"," ">>
\* U+212A, " k K" and a line end
KelvinFile == <<KELVIN, " ", "k", " ", "K", "\n">>
\* "a cat", a line end, "c.t cut", a line end
DotFile == <<"a"," ","c","a","t","\n","c",".","t"," ","c","u","t","\n">>

NamedFiles == {CatFile, FoxFile, AtFile, AtFileNl, EndFile, EndFileNl,
               HyphenFile, KelvinFile, DotFile}

\* the targets tried on every file drawn character by character
CharTargets == {<<"a">>, <<"A">>, <<"a", "-">>, <<"a", "-", "a">>, <<".">>, <<" ", "a", "\n">>}

\* the targets tried on the named files
NamedTargets == {<<"c", "a", "t">>, <<"C", "A", "T">>, <<"c", ".", "t">>,
                 <<"k">>, <<"a", "t">>, <<"w", "e", "l", "l", "-">>,
                 <<"w", "e", "l", "l", "-", "k", "n", "o", "w", "n">>,
                 <<"c", "a", "n", "'", "t">>, <<"c", "a", "t", "\n">>,
                 <<" ", "c", "a", "t">>, <<"a", "-", "b", "-", "c">>}

\* the files handed to the command line
MainFiles == {CatFile, FoxFile, AtFileNl, DotFile}

\* sys.argv[1:]: the function, then the words; f is the path
ArgvCommon == {<<"common", <<"f">>>>}
ArgvOccur == {<<"occur", w, <<"f">>>> : w \in NamedTargets}
ArgvOther == {<<>>, <<"common">>, <<"occur", <<"f">>>>, <<"count", <<"f">>>>,
              <<"common", <<"c", "a", "t">>, <<"f">>>>,
              <<"count", <<"c", "a", "t">>, <<"f">>>>,
              <<"occur", <<"c", "a", "t">>, <<"f">>, <<"g">>>>}

----------------------------------------------------------------------------
(* The initial states: a direct call of either function, or the command.   *)

Idle ==
    /\ opens = 0
    /\ file = "none"
    /\ rest = <<>>
    /\ word_pattern = <<>>
    /\ word_occurrences = <<>>
    /\ word_occurences = 0
    /\ three_words = <<>>
    /\ stdout = <<>>
    /\ exit_status = -1

InitThree ==
    /\ entry = "three_most_common_words"
    /\ argv = <<>>
    /\ word = <<>>
    /\ \/ fs_exists = TRUE /\ fs_content \in CharFiles \cup PieceFiles \cup NamedFiles
       \/ fs_exists = FALSE /\ fs_content = <<>>
    /\ pc = "three_most_common_words"
    /\ Idle

InitOccur ==
    /\ entry = "word_occurrences"
    /\ argv = <<>>
    /\ \/ /\ fs_exists = TRUE
          /\ \/ word \in CharTargets /\ fs_content \in CharFiles
             \/ word \in NamedTargets /\ fs_content \in NamedFiles
       \/ fs_exists = FALSE /\ fs_content = <<>> /\ word \in CharTargets
    /\ pc = "word_occurrences"
    /\ Idle

InitMain ==
    /\ entry = "main"
    /\ argv \in ArgvCommon \cup ArgvOccur \cup ArgvOther
    /\ word = <<>>
    /\ \/ fs_exists = TRUE /\ fs_content \in MainFiles
       \/ fs_exists = FALSE /\ fs_content = <<>>
    /\ pc = "main"
    /\ Idle

Init == InitThree \/ InitOccur \/ InitMain

----------------------------------------------------------------------------
(* three_most_common_words *)

\* where a function goes when it returns
Return(to) == IF entry = "main" THEN to ELSE "returned"

\* word_occurrences = {}; with open(path) as file
ThreeOpen ==
    /\ pc = "three_most_common_words"
    /\ fs_exists
    /\ word_occurrences' = <<>>
    /\ opens' = opens + 1
    /\ file' = "open"
    /\ rest' = fs_content
    /\ pc' = "three_loop"
    /\ UNCHANGED <<entry, argv, word, fs_exists, fs_content, word_pattern,
                   word_occurences, three_words, stdout, exit_status>>

\* open raises FileNotFoundError: the message, then sys.exit(1)
ThreeNoFile ==
    /\ pc = "three_most_common_words"
    /\ ~fs_exists
    /\ word_occurrences' = <<>>
    /\ opens' = opens + 1
    /\ stdout' = Append(stdout, <<"No such file or directory">>)
    /\ exit_status' = 1
    /\ pc' = "exit"
    /\ UNCHANGED <<entry, argv, word, fs_exists, fs_content, file, rest,
                   word_pattern, word_occurences, three_words>>

\* one turn of  for line in file:  the words of the line, then the tally
ThreeLine ==
    /\ pc = "three_loop"
    /\ rest # <<>>
    /\ word_occurrences' = Tally(word_occurrences, LineWords(NextLine(rest)))
    /\ rest' = AfterLine(rest)
    /\ UNCHANGED <<entry, argv, word, fs_exists, fs_content, pc, opens, file,
                   word_pattern, word_occurences, three_words, stdout,
                   exit_status>>

\* the file is exhausted: it is closed, the items are sorted and cut, and
\* the function returns three_words
ThreeSort ==
    /\ pc = "three_loop"
    /\ rest = <<>>
    /\ file' = "closed"
    /\ three_words' = ThreeWords(word_occurrences)
    /\ pc' = Return("main_common")
    /\ UNCHANGED <<entry, argv, word, fs_exists, fs_content, opens, rest,
                   word_pattern, word_occurrences, word_occurences, stdout,
                   exit_status>>

----------------------------------------------------------------------------
(* word_occurrences *)

\* stripped_word = word.strip(); the pattern is compiled; open(path)
OccurOpen ==
    /\ pc = "word_occurrences"
    /\ fs_exists
    /\ word_pattern' = Strip(word)
    /\ word_occurences' = 0
    /\ opens' = opens + 1
    /\ file' = "open"
    /\ rest' = fs_content
    /\ pc' = "occur_loop"
    /\ UNCHANGED <<entry, argv, word, fs_exists, fs_content, word_occurrences,
                   three_words, stdout, exit_status>>

OccurNoFile ==
    /\ pc = "word_occurrences"
    /\ ~fs_exists
    /\ word_pattern' = Strip(word)
    /\ word_occurences' = 0
    /\ opens' = opens + 1
    /\ stdout' = Append(stdout, <<"No such file or directory">>)
    /\ exit_status' = 1
    /\ pc' = "exit"
    /\ UNCHANGED <<entry, argv, word, fs_exists, fs_content, file, rest,
                   word_occurrences, three_words>>

\* one turn of  for line in file:  the total grows by the matches
OccurLine ==
    /\ pc = "occur_loop"
    /\ rest # <<>>
    /\ word_occurences' =
           word_occurences + Len(TargetFindAll(word_pattern, NextLine(rest)))
    /\ rest' = AfterLine(rest)
    /\ UNCHANGED <<entry, argv, word, fs_exists, fs_content, pc, opens, file,
                   word_pattern, word_occurrences, three_words, stdout,
                   exit_status>>

\* the file is exhausted: it is closed and the total is returned
OccurReturn ==
    /\ pc = "occur_loop"
    /\ rest = <<>>
    /\ file' = "closed"
    /\ pc' = Return("main_occur")
    /\ UNCHANGED <<entry, argv, word, fs_exists, fs_content, opens, rest,
                   word_pattern, word_occurrences, word_occurences,
                   three_words, stdout, exit_status>>

----------------------------------------------------------------------------
(* The command line. *)

IsCommon == Len(argv) = 2 /\ argv[1] = "common"
IsOccur == Len(argv) = 3 /\ argv[1] = "occur"

\* a wrong number of arguments, or no function of that shape
MainUsage ==
    /\ pc = "main"
    /\ ~IsCommon /\ ~IsOccur
    /\ stdout' = Append(stdout, <<"Usage">>)
    /\ exit_status' = 1
    /\ pc' = "exit"
    /\ UNCHANGED <<entry, argv, word, fs_exists, fs_content, opens, file, rest,
                   word_pattern, word_occurrences, word_occurences, three_words>>

\* words = three_most_common_words(sys.argv[2])
MainCommon ==
    /\ pc = "main"
    /\ IsCommon
    /\ pc' = "three_most_common_words"
    /\ UNCHANGED <<entry, argv, word, fs_exists, fs_content, opens, file, rest,
                   word_pattern, word_occurrences, word_occurences, three_words,
                   stdout, exit_status>>

\* print("Three most common words:"); print(", ".join(words))
MainPrintCommon ==
    /\ pc = "main_common"
    /\ stdout' = stdout \o <<<<"Three most common words:">>, <<Join(three_words)>>>>
    /\ exit_status' = 0
    /\ pc' = "exit"
    /\ UNCHANGED <<entry, argv, word, fs_exists, fs_content, opens, file, rest,
                   word_pattern, word_occurrences, word_occurences, three_words>>

\* if not word_is_valid(sys.argv[2]): the message, then sys.exit(1)
MainOccurInvalid ==
    /\ pc = "main"
    /\ IsOccur
    /\ ~word_is_valid(argv[2])
    /\ stdout' = Append(stdout, <<"is not a valid word", argv[2]>>)
    /\ exit_status' = 1
    /\ pc' = "exit"
    /\ UNCHANGED <<entry, argv, word, fs_exists, fs_content, opens, file, rest,
                   word_pattern, word_occurrences, word_occurences, three_words>>

\* a faulty variant of MainOccur: the call made without the check of the word
MainOccurUnchecked ==
    /\ pc = "main"
    /\ IsOccur
    /\ word' = argv[2]
    /\ pc' = "word_occurrences"
    /\ UNCHANGED <<entry, argv, fs_exists, fs_content, opens, file, rest,
                   word_pattern, word_occurrences, word_occurences, three_words,
                   stdout, exit_status>>

\* number = word_occurrences(sys.argv[2], sys.argv[3]), the word being valid
MainOccur ==
    /\ pc = "main"
    /\ IsOccur
    /\ word_is_valid(argv[2])
    /\ word' = argv[2]
    /\ pc' = "word_occurrences"
    /\ UNCHANGED <<entry, argv, fs_exists, fs_content, opens, file, rest,
                   word_pattern, word_occurrences, word_occurences, three_words,
                   stdout, exit_status>>

\* print(str(number) + " occurrences of the word '" + sys.argv[2] + "'")
MainPrintOccur ==
    /\ pc = "main_occur"
    /\ stdout' = Append(stdout, <<"occurrences of the word", word_occurences, argv[2]>>)
    /\ exit_status' = 0
    /\ pc' = "exit"
    /\ UNCHANGED <<entry, argv, word, fs_exists, fs_content, opens, file, rest,
                   word_pattern, word_occurrences, word_occurences, three_words>>

Next ==
    \/ ThreeOpen \/ ThreeNoFile \/ ThreeLine \/ ThreeSort
    \/ OccurOpen \/ OccurNoFile \/ OccurLine \/ OccurReturn
    \/ MainUsage \/ MainCommon \/ MainPrintCommon
    \/ MainOccurInvalid \/ MainOccur \/ MainPrintOccur

Spec == Init /\ [][Next]_vars

----------------------------------------------------------------------------
(* What the properties below speak of. *)

\* the run is one of three_most_common_words, called directly or by main
IsThreeRun ==
    entry = "three_most_common_words" \/ (entry = "main" /\ IsCommon)

IsOccurRun ==
    entry = "word_occurrences" \/ (entry = "main" /\ IsOccur)

\* the scan of three_most_common_words has begun
ThreeScanning == IsThreeRun /\ file # "none"

\* the scan of three_most_common_words has read the whole file
ThreeScanned == ThreeScanning /\ rest = <<>>

\* three_most_common_words has returned its list
ThreeReturned == IsThreeRun /\ file = "closed"

\* word_occurrences has returned its total
OccurReturned == IsOccurRun /\ file = "closed"

\* the text the file iterator has handed over so far
Consumed == SubSeq(fs_content, 1, Len(fs_content) - Len(rest))

Keys(d) == {d[i].word : i \in 1..Len(d)}

CountOf(d, w) ==
    IF HasKey(d, w) THEN d[CHOOSE i \in 1..Len(d) : d[i].word = w].count ELSE 0

RECURSIVE SumCounts(_)
SumCounts(d) == IF d = <<>> THEN 0 ELSE Head(d).count + SumCounts(Tail(d))

\* The boundary rule on a whole text: the candidate token at i is the longest
\* letters+, optional hyphen, letters* from i on; the index after it.
CandidateEnd(t, i) ==
    LET n1 == LetterRun(t, i)
        h  == IF i + n1 <= Len(t) /\ t[i + n1] = "-" THEN 1 ELSE 0
    IN  i + n1 + h + LetterRun(t, i + n1 + h)

\* the candidate at i counts: white space or the start of the text before
\* it, white space after it
RuleCounts(t, i) ==
    /\ IsAlpha(t[i])
    /\ i = 1 \/ t[i-1] \in {" ", "\t", "\n", "\f"}
    /\ CandidateEnd(t, i) <= Len(t)
    /\ t[CandidateEnd(t, i)] \in {" ", "\t", "\n", "\f"}

RECURSIVE RuleTokensFrom(_, _)
RuleTokensFrom(t, i) ==
    IF i > Len(t) THEN <<>>
    ELSE IF RuleCounts(t, i)
         THEN <<SubSeq(t, i, CandidateEnd(t, i) - 1)>> \o RuleTokensFrom(t, i + 1)
         ELSE RuleTokensFrom(t, i + 1)

\* the tokens of the text t that the boundary rule counts, left to right
RuleTokens(t) == RuleTokensFrom(t, 1)

\* how many of the tokens are the word w, letter case set aside
Occurrences(tokens, w) ==
    Cardinality({i \in 1..Len(tokens) : lower(tokens[i]) = w})

\* the dict d is the tally of the tokens: its keys are their lower-case
\* forms, each once, each with the number of tokens it stands for
TallyOf(d, tokens) ==
    LET low == [i \in 1..Len(tokens) |-> lower(tokens[i])]
    IN  /\ Keys(d) = Range(low)
        /\ \A i \in 1..Len(d) :
               d[i].count = Cardinality({k \in 1..Len(low) : low[k] = d[i].word})
        /\ \A i, j \in 1..Len(d) : d[i].word = d[j].word => i = j

\* c is letters+, then at most one hyphen, then letters*
IsWordForm(c) ==
    \E n \in 1..Len(c) :
        /\ \A k \in 1..n : IsAlpha(c[k])
        /\ \/ n = Len(c)
           \/ c[n + 1] = "-" /\ \A k \in (n + 2)..Len(c) : IsAlpha(c[k])

\* [i, j] is a chunk of t: a longest run without white space
IsChunk(t, i, j) ==
    /\ i <= j
    /\ \A k \in i..j : ~IsSpace(t[k])
    /\ i = 1 \/ IsSpace(t[i-1])
    /\ j = Len(t) \/ IsSpace(t[j+1])

RECURSIVE ChunkTokensFrom(_, _)
ChunkTokensFrom(t, i) ==
    IF i > Len(t) THEN <<>>
    ELSE LET js == {j \in i..(Len(t) - 1) : IsChunk(t, i, j)}
         IN  IF js = {} THEN ChunkTokensFrom(t, i + 1)
             ELSE LET j == CHOOSE j \in js : TRUE
                  IN  (IF IsWordForm(SubSeq(t, i, j)) THEN <<SubSeq(t, i, j)>> ELSE <<>>)
                      \o ChunkTokensFrom(t, j + 1)

\* the chunks of t that white space follows and that have the form of a word
ChunkTokens(t) == ChunkTokensFrom(t, 1)

RECURSIVE ScanFrom(_, _)
ScanFrom(d, t) ==
    IF t = <<>> THEN d
    ELSE ScanFrom(Tally(d, LineWords(NextLine(t))), AfterLine(t))

\* the dict three_most_common_words builds from the text t
ScanTable(t) == ScanFrom(<<>>, t)

\* the text of t at index i is the word w, letter case set aside
SameTextAt(t, i, w) ==
    /\ i + Len(w) - 1 <= Len(t)
    /\ \A k \in 1..Len(w) : SreLower(t[i + k - 1]) = SreLower(w[k])

\* the places of t where the word w stands between white space
LiteralPlaces(t, w) ==
    {i \in 1..Len(t) :
        /\ SameTextAt(t, i, w)
        /\ i = 1 \/ IsSpace(t[i-1])
        /\ i + Len(w) <= Len(t) /\ IsSpace(t[i + Len(w)])}

The == <<"t", "h", "e">>
Fox == <<"f", "o", "x">>
Quick == <<"q", "u", "i", "c", "k">>
Lazy == <<"l", "a", "z", "y">>
Cat == <<"c", "a", "t">>
At == <<"a", "t">>

----------------------------------------------------------------------------
(* The properties. *)

\* C1: while three_most_common_words scans and when it is done, the counts
\* of the dict add up to the number of tokens the boundary rule counts in
\* the lines read so far, every count is at least 1, and a step never
\* removes an entry or lowers its count.
C1_SumIsTokens ==
    /\ [](ThreeScanning =>
            /\ SumCounts(word_occurrences) = Len(RuleTokens(Consumed))
            /\ \A i \in 1..Len(word_occurrences) : word_occurrences[i].count >= 1)
    /\ [][\A i \in 1..Len(word_occurrences) :
            /\ i <= Len(word_occurrences')
            /\ word_occurrences'[i].word = word_occurrences[i].word
            /\ word_occurrences'[i].count >= word_occurrences[i].count]_vars

\* a line with a word twice and another word has been tallied, and more
\* lines follow
C1_Witness ==
    /\ ThreeScanning
    /\ Len(word_occurrences) >= 2
    /\ \E i \in 1..Len(word_occurrences) : word_occurrences[i].count >= 2
    /\ rest # <<>>
    /\ SumCounts(word_occurrences) = 3

\* C2: the list three_most_common_words returns has no word twice, has
\* min(3, distinct words) words, lists them by count from large to small,
\* leaves out no word with a larger count than a word it lists, and is
\* empty when the file holds no word.
C2_TopThree ==
    ThreeReturned =>
        /\ \A i, j \in 1..Len(three_words) : three_words[i] = three_words[j] => i = j
        /\ Len(three_words) =
               (IF Cardinality(Keys(word_occurrences)) < 3
                THEN Cardinality(Keys(word_occurrences)) ELSE 3)
        /\ Range(three_words) \subseteq Keys(word_occurrences)
        /\ \A i, j \in 1..Len(three_words) :
               i < j => CountOf(word_occurrences, three_words[i])
                          >= CountOf(word_occurrences, three_words[j])
        /\ \A w \in Keys(word_occurrences) \ Range(three_words) :
               \A r \in Range(three_words) :
                   CountOf(word_occurrences, w) <= CountOf(word_occurrences, r)
        /\ RuleTokens(fs_content) = <<>> => three_words = <<>>

\* four words, the one left out with a smaller count than one returned, and
\* the first word of the dict not the most common one
C2_Witness ==
    /\ ThreeReturned
    /\ Len(word_occurrences) >= 4
    /\ Len(three_words) = 3
    /\ three_words[1] # word_occurrences[1].word
    /\ \E w \in Keys(word_occurrences) \ Range(three_words) :
           CountOf(word_occurrences, w) < CountOf(word_occurrences, three_words[1])

C4_WholeChunks ==
    ThreeScanned =>
        /\ TallyOf(word_occurrences, ChunkTokens(fs_content))
        /\ \A i \in 1..Len(word_occurrences) :
               \E a, b \in 1..Len(fs_content) :
                   /\ IsChunk(fs_content, a, b)
                   /\ lower(SubSeq(fs_content, a, b)) = word_occurrences[i].word

\* "well-known" and "well-" are counted; "forebodings.", "-well", "a-b-c"
\* and "a--b" leave nothing in the dict
C4_Witness ==
    /\ ThreeScanned
    /\ fs_content = HyphenFile
    /\ Keys(word_occurrences) =
           {<<"w", "e", "l", "l", "-", "k", "n", "o", "w", "n">>,
            <<"w", "e", "l", "l", "-">>, <<"x">>, <<"y">>}

\* C5: for a target that is letters+, at most one hyphen, letters*,
\* word_occurrences returns the count the dict of three_most_common_words
\* holds for the lower-case target (0 when it is no key).
C5_SameAsTable ==
    (OccurReturned /\ IsWordForm(word)) =>
        word_occurences = CountOf(ScanTable(fs_content), lower(word))

\* C6: word_occurrences counts the places where the trimmed target stands,
\* character for character with letter case set aside, between white space.
C6_Literal ==
    OccurReturned =>
        word_occurences = Cardinality(LiteralPlaces(fs_content, Strip(word)))

\* C7: in the occur command a word that word_is_valid refuses leads to the
\* message and exit status 1 without the file ever being opened or read and
\* without a count being printed.
C7_InvalidRejected ==
    (entry = "main" /\ IsOccur /\ ~word_is_valid(argv[2])) =>
        /\ opens = 0
        /\ file = "none"
        /\ pc \in {"main", "exit"}
        /\ \A i \in 1..Len(stdout) : stdout[i][1] # "occurrences of the word"
        /\ pc = "exit" =>
               /\ exit_status = 1
               /\ stdout = <<<<"is not a valid word", argv[2]>>>>

\* the command  occur can't f  has ended
C7_Witness ==
    /\ entry = "main"
    /\ IsOccur
    /\ argv[2] = <<"c", "a", "n", "'", "t">>
    /\ fs_exists
    /\ pc = "exit"
    /\ exit_status = 1

\* what C8 says of every file
C8_General ==
    ThreeScanning =>
        LET tokens == RuleTokens(Consumed)
        IN  /\ \A i \in 1..Len(word_occurrences) :
                   /\ \A k \in 1..Len(word_occurrences[i].word) :
                          word_occurrences[i].word[k] \in LowerSet \cup {"-"}
                   /\ word_occurrences[i].count =
                          Occurrences(tokens, word_occurrences[i].word)
            /\ \A i, j \in 1..Len(word_occurrences) :
                   word_occurrences[i].word = word_occurrences[j].word => i = j

C9_CatIsTwo ==
    (OccurReturned /\ entry = "word_occurrences" /\ word = Cat /\ fs_content = CatFile) =>
        word_occurences = 2

C9_Witness ==
    /\ OccurReturned
    /\ entry = "word_occurrences"
    /\ word = Cat
    /\ fs_content = CatFile
    /\ word_occurences = 2

\* C9 as written: the call returns 1
C9_Original ==
    (OccurReturned /\ entry = "word_occurrences" /\ word = Cat /\ fs_content = CatFile) =>
        word_occurences = 1

====
